---- MODULE Spec2Model ----
(***************************************************************************)
(* shutdown_if_no_usage.py: a cron-driven script that looks at the job     *)
(* marker files of a tracking directory, reaps the markers that timed out, *)
(* keeps a quiet-period timer as a marker file of its own, and shuts the   *)
(* host down when it is idle and the billing model says that saves money.  *)
(*                                                                         *)
(* Time is counted in clock ticks, Hz ticks to the second, so that the     *)
(* int() truncations of the script (marker age, uptime) are conversions    *)
(* and not the identity.  The file system is the only state shared by the  *)
(* script's invocations and the external jobs.                             *)
(***************************************************************************)
EXTENDS Integers, Sequences, FiniteSets, TLC

----------------------------------------------------------------------------
(* Bounds of the model *)

Hz == 2                  \* clock ticks per second
MaxSteps == 2            \* the wall clock advances at most this many minutes
MaxTableMinute == 120    \* billing inputs: whole minutes of uptime 0..MaxTableMinute
MaxStartMinute == 5      \* cron on an idle host: first invocation at uptime 0..MaxStartMinute minutes

----------------------------------------------------------------------------
(* Program constants *)

IDLE_QUIET_JOB_NAME == "_idle_quiet_timer"
JOB_FILE_EXTENSION == ".log"

PAID_ON_BOOT_MINUTES == 60
MINIMUM_PAYMENT_CHUNK_MINUTES == 60
SHUTDOWN_SAFETY_MARGIN_MINUTES == 2
IDLE_QUIET_MINUTES == 2

\* one wall-clock step of the model: a minute (cron's period), in ticks
Step == 60 * Hz
MaxTime == MaxSteps * Step

----------------------------------------------------------------------------
(* Files.  A file name is <<stem, extension>>; a body is the text of the   *)
(* file's first token: a decimal number (kept in tenths), some other text, *)
(* or nothing at all.                                                      *)

Num(tenths) == [kind |-> "num", tenths |-> tenths]
TextBody == [kind |-> "text", tenths |-> 0]
EmptyBody == [kind |-> "empty", tenths |-> 0]

NoFile == [exists |-> FALSE, mtime |-> 0, body |-> EmptyBody]
File(mtime, body) == [exists |-> TRUE, mtime |-> mtime, body |-> body]

RealJobNames == {"job1"}
file_name_from_job_name(job_name) == <<job_name, JOB_FILE_EXTENSION>>
QuietFile == file_name_from_job_name(IDLE_QUIET_JOB_NAME)
RealFiles == {file_name_from_job_name(n) : n \in RealJobNames}
OtherFile == <<"notes", ".txt">>
FileNames == RealFiles \cup {QuietFile, OtherFile}

\* what an external job may write as its timeout: "0", "1.5", "abc", ""
JobBodies == {Num(0), Num(15), TextBody, EmptyBody}
\* how far ahead of the script's clock a job's marker may be stamped
Skews == {0, 1, Step}

\* the settings of IDLE_QUIET_MINUTES the model runs under
QuietSettings == {Num(0), Num(10)}
\* the host's uptime, in ticks, when the model's clock reads 0: 56 minutes and
\* a fraction of a second, so that the minutes that follow lie on both sides of
\* the billing window
BootUptime == 56 * 60 * Hz + 1

Procs == {1, 2}

----------------------------------------------------------------------------
(* Pure functions of the script *)

\* int(a / b): truncation toward zero
Trunc(a, b) == IF a >= 0 THEN a \div b ELSE -((-a) \div b)

\* os.path.splitext(job_filepath)[0]
splitext(fn) == fn[1]
endswith(fn, ext) == fn[2] = ext

Parses(body) == body.kind = "num"

build_job_from_fp(fn, f, t) ==
    [name |-> splitext(fn),
     seconds_running |-> Trunc(t - f.mtime, Hz),
     timeout_threshold_minutes |-> Trunc(f.body.tenths, 10),
     file_path |-> fn]

\* variants of StillRunning: the quiet timer left out of the comparison, and
\* the comparison made inclusive
StillRunningRealOnly(job) ==
    /\ job.name # IDLE_QUIET_JOB_NAME
    /\ job.seconds_running < job.timeout_threshold_minutes * 60
StillRunningInclusive(job) == job.seconds_running <= job.timeout_threshold_minutes * 60
StillRunning(job) == job.seconds_running < job.timeout_threshold_minutes * 60

\* variant of TimedOut: the comparison made strict
TimedOutStrict(job) == job.seconds_running > job.timeout_threshold_minutes * 60
TimedOut(job) == job.seconds_running >= job.timeout_threshold_minutes * 60

IsQuietJob(job) == job.name = IDLE_QUIET_JOB_NAME

\* variant of already_paid_from_boot: no paid second left still counts as paid
already_paid_from_boot_inclusive(safe_uptime_seconds, shutdown_safety_seconds, paid_on_boot_minutes) ==
    paid_on_boot_minutes * 60 - (safe_uptime_seconds + shutdown_safety_seconds) >= 0

already_paid_from_boot(safe_uptime_seconds, shutdown_safety_seconds, paid_on_boot_minutes) ==
    LET seconds_to_pay == safe_uptime_seconds + shutdown_safety_seconds
        seconds_already_paid == paid_on_boot_minutes * 60
        paid_seconds_left == seconds_already_paid - seconds_to_pay
    IN  paid_seconds_left > 0

\* variant of chunk_boundary_check: exactly the margin left is not yet enough
chunk_boundary_check_strict(safe_uptime_seconds, shutdown_safety_seconds, payment_chunk_minutes) ==
    LET chunks_paid == safe_uptime_seconds \div (60 * payment_chunk_minutes)
        next_chunk_uptime_seconds == (chunks_paid + 1) * payment_chunk_minutes * 60
        seconds_until_next_chunk == next_chunk_uptime_seconds - safe_uptime_seconds
    IN  seconds_until_next_chunk < shutdown_safety_seconds

\* math.floor((safe_uptime_seconds / 60) / payment_chunk_minutes), and what
\* follows it in shutdown_saves_money
chunk_boundary_check(safe_uptime_seconds, shutdown_safety_seconds, payment_chunk_minutes) ==
    LET chunks_paid == safe_uptime_seconds \div (60 * payment_chunk_minutes)
        next_chunk_uptime_seconds == (chunks_paid + 1) * payment_chunk_minutes * 60
        seconds_until_next_chunk == next_chunk_uptime_seconds - safe_uptime_seconds
    IN  seconds_until_next_chunk <= shutdown_safety_seconds

\* variant of shutdown_saves_money: the shortcut taken below 2 minutes only
shutdown_saves_money_below_2(uptime_seconds, paid_on_boot_minutes, payment_chunk_minutes, shutdown_safety_margin) ==
    LET shutdown_safety_seconds == shutdown_safety_margin * 60
        safe_uptime_seconds == uptime_seconds + shutdown_safety_seconds
    IN  IF already_paid_from_boot(safe_uptime_seconds, shutdown_safety_seconds,
                                  paid_on_boot_minutes)
        THEN FALSE
        ELSE IF payment_chunk_minutes < 2
        THEN TRUE
        ELSE chunk_boundary_check(safe_uptime_seconds, shutdown_safety_seconds,
                                  payment_chunk_minutes)

shutdown_saves_money(uptime_seconds, paid_on_boot_minutes, payment_chunk_minutes, shutdown_safety_margin) ==
    LET shutdown_safety_seconds == shutdown_safety_margin * 60
        safe_uptime_seconds == uptime_seconds + shutdown_safety_seconds
    IN  IF already_paid_from_boot(safe_uptime_seconds, shutdown_safety_seconds,
                                  paid_on_boot_minutes)
        THEN FALSE
        ELSE IF payment_chunk_minutes <= 2
        THEN TRUE
        ELSE chunk_boundary_check(safe_uptime_seconds, shutdown_safety_seconds,
                                  payment_chunk_minutes)

----------------------------------------------------------------------------
VARIABLES
    now,      \* wall clock, in ticks
    dir,      \* the tracking directory: "ok", "missing", "blocked", "unreadable"
    files,    \* the files of the tracking directory
    opts,     \* the options of the invocations (environment over DEFAULTS)
    boot,     \* uptime in ticks at clock 0
    halted,   \* /sbin/shutdown has been run
    pc,       \* where each invocation of main is
    loc,      \* the local variables of each invocation
    obs,      \* what each invocation has done so far
    prev,     \* a summary of each process's previous invocation
    calm,     \* no tick and no external file change since the last invocation began
    last_real,\* the last time a real job's marker was present (-1: never)
    bill,     \* a call of shutdown_saves_money on its own
    order     \* two calls of is_machine_idle on a job list and on a permutation of it

vars == <<now, dir, files, opts, boot, halted, pc, loc, obs, prev, calm, last_real, bill,
          order>>

\* the locals of main, build_jobs_from_dir, is_machine_idle and
\* remove_timed_out_jobs, and two notes taken for the invocation while it runs:
\* the files its reaper removed, and last_real as it was when it began
NoLoc == [job_files |-> {}, jobs |-> <<>>, were_in_quiet_period |-> FALSE,
          running_jobs |-> <<>>, jobs_to_terminate |-> <<>>,
          removed |-> {}, start_real |-> -1]

NoObs == [outcome |-> "none", exc |-> "none", at |-> "none", listed |-> FALSE, empty |-> FALSE,
          idle_returned |-> FALSE, is_idle |-> FALSE,
          money_asked |-> FALSE, saves |-> FALSE, shutdown |-> FALSE,
          wrote |-> FALSE]

NoPrev == [after_empty |-> FALSE, is_idle |-> FALSE]

NoBill == [uptime_seconds |-> 0, paid_on_boot_minutes |-> 0, payment_chunk_minutes |-> 0,
           shutdown_safety_margin |-> 0, called |-> FALSE, result |-> FALSE]

NoOrder == [jobs |-> <<>>, permuted |-> <<>>, called |-> FALSE,
            first |-> [is_idle |-> FALSE, removed |-> {}, wrote |-> FALSE],
            second |-> [is_idle |-> FALSE, removed |-> {}, wrote |-> FALSE]]

Options == [PAID_ON_BOOT_MINUTES : {PAID_ON_BOOT_MINUTES},
            MINIMUM_PAYMENT_CHUNK_MINUTES : {MINIMUM_PAYMENT_CHUNK_MINUTES},
            SHUTDOWN_SAFETY_MARGIN_MINUTES : {SHUTDOWN_SAFETY_MARGIN_MINUTES},
            IDLE_QUIET_MINUTES : QuietSettings]

Init ==
    /\ now = 0
    /\ dir \in {"ok", "missing", "blocked", "unreadable"}
    /\ files = [fn \in FileNames |-> NoFile]
    /\ opts \in Options
    /\ boot = BootUptime
    /\ halted = FALSE
    /\ pc = [p \in Procs |-> "idle"]
    /\ loc = [p \in Procs |-> NoLoc]
    /\ obs = [p \in Procs |-> NoObs]
    /\ prev = [p \in Procs |-> NoPrev]
    /\ calm = FALSE
    /\ last_real = -1
    /\ bill = NoBill
    /\ order = NoOrder

----------------------------------------------------------------------------
(* Bookkeeping shared by the actions *)

RealPresent(fs) == \E fn \in RealFiles : fs[fn].exists

\* the last time a real job's marker was in the directory
TrackReal ==
    last_real' = IF RealPresent(files) \/ RealPresent(files') THEN now' ELSE last_real

Existing(fs) == {fn \in FileNames : fs[fn].exists}

\* an exception leaves main: the invocation is over
Raise(p, exc, at) ==
    /\ pc' = [pc EXCEPT ![p] = "idle"]
    /\ loc' = [loc EXCEPT ![p] = NoLoc]
    /\ obs' = [obs EXCEPT ![p].outcome = "raised", ![p].exc = exc, ![p].at = at]

\* /proc/uptime read and truncated by get_uptime_seconds
get_uptime_seconds == Trunc(boot + now, Hz)

----------------------------------------------------------------------------
(* The environment: the wall clock and the external jobs *)

Tick ==
    /\ ~halted
    /\ now + Step <= MaxTime
    /\ now' = now + Step
    /\ calm' = FALSE
    /\ UNCHANGED <<dir, files, opts, boot, halted, pc, loc, obs, prev, bill, order>>
    /\ TrackReal

\* a job starts (or restarts): it writes its marker
JobStart ==
    /\ ~halted
    /\ dir \in {"ok", "unreadable"}
    /\ \E fn \in RealFiles, body \in JobBodies, skew \in Skews :
          files' = [files EXCEPT ![fn] = File(now + skew, body)]
    /\ calm' = FALSE
    /\ UNCHANGED <<now, dir, opts, boot, halted, pc, loc, obs, prev, bill, order>>
    /\ TrackReal

\* a job ends: it deletes its marker
JobEnd ==
    /\ ~halted
    /\ \E fn \in RealFiles :
          /\ files[fn].exists
          /\ files' = [files EXCEPT ![fn] = NoFile]
    /\ calm' = FALSE
    /\ UNCHANGED <<now, dir, opts, boot, halted, pc, loc, obs, prev, bill, order>>
    /\ TrackReal

\* something that is no marker appears in the directory (the script never
\* opens it, so its time stamp and body are left out)
StrayFile ==
    /\ ~halted
    /\ dir \in {"ok", "unreadable"}
    /\ ~files[OtherFile].exists
    /\ files' = [files EXCEPT ![OtherFile] = File(0, TextBody)]
    /\ calm' = FALSE
    /\ UNCHANGED <<now, dir, opts, boot, halted, pc, loc, obs, prev, bill, order>>
    /\ TrackReal

----------------------------------------------------------------------------
(* One invocation of main, cut at its file system calls *)

\* main is entered; build_jobs_from_dir checks, creates and lists the directory
build_jobs_from_dir_list(p) ==
    /\ ~halted
    /\ pc[p] = "idle"
    /\ prev' = [prev EXCEPT ![p] = [after_empty |-> /\ obs[p].outcome = "returned"
                                                    /\ obs[p].empty
                                                    /\ calm,
                                    is_idle |-> obs[p].idle_returned /\ obs[p].is_idle]]
    /\ calm' = TRUE
    /\ IF dir = "blocked"
       THEN \* os.makedirs raises OSError, which nothing catches
            /\ pc' = [pc EXCEPT ![p] = "idle"]
            /\ obs' = [obs EXCEPT ![p] = [NoObs EXCEPT !.outcome = "raised", !.exc = "OSError",
                                                      !.at = "os.makedirs"]]
            /\ loc' = [loc EXCEPT ![p] = NoLoc]
            /\ dir' = dir
       ELSE /\ dir' = IF dir = "missing" THEN "ok" ELSE dir
            /\ pc' = [pc EXCEPT ![p] = "read"]
            /\ IF dir = "unreadable"
               THEN \* os.listdir raises OSError: job_files = []
                    /\ loc' = [loc EXCEPT ![p] = [NoLoc EXCEPT !.start_real = last_real]]
                    /\ obs' = [obs EXCEPT ![p] = [NoObs EXCEPT !.outcome = "running"]]
               ELSE \* os.listdir: the names, which the loop will meet in any order
                    LET job_files == Existing(files)
                    IN  /\ loc' = [loc EXCEPT ![p] = [NoLoc EXCEPT !.job_files = job_files,
                                                                !.start_real = last_real]]
                        /\ obs' = [obs EXCEPT ![p] =
                                     [NoObs EXCEPT !.outcome = "running", !.listed = TRUE,
                                        !.empty = \A fn \in job_files :
                                                     ~endswith(fn, JOB_FILE_EXTENSION)]]
    /\ UNCHANGED <<now, files, opts, boot, halted, last_real, bill, order>>

\* one turn of the loop over job_files: _build_job_from_fp on the next name
build_jobs_from_dir_loop(p) ==
    /\ ~halted
    /\ pc[p] = "read"
    /\ \E job_filepath \in loc[p].job_files :
       LET f == files[job_filepath]
           rest == loc[p].job_files \ {job_filepath}
       IN  IF ~endswith(job_filepath, JOB_FILE_EXTENSION)
           THEN /\ loc' = [loc EXCEPT ![p].job_files = rest]
                /\ UNCHANGED <<pc, obs>>
           ELSE IF ~f.exists
           THEN \* os.path.getmtime raises OSError
                Raise(p, "OSError", "os.path.getmtime")
           ELSE IF ~Parses(f.body)
           THEN \* f.readline().split()[0] raises IndexError, float() raises ValueError
                IF f.body.kind = "empty"
                THEN Raise(p, "IndexError", "split()[0]")
                ELSE Raise(p, "ValueError", "float")
           ELSE /\ loc' = [loc EXCEPT ![p].job_files = rest,
                                      ![p].jobs = Append(@, build_job_from_fp(job_filepath, f, now))]
                /\ UNCHANGED <<pc, obs>>
    /\ UNCHANGED <<now, dir, files, opts, boot, halted, prev, calm, last_real, bill, order>>

\* variant of ScanForQuietTimer: only the first job of the list looked at
ScanForQuietTimerFirstOnly(jobs) == jobs # <<>> /\ IsQuietJob(jobs[1])

\* the loop of is_machine_idle that sets were_in_quiet_period
ScanForQuietTimer(jobs) == \E i \in 1..Len(jobs) : IsQuietJob(jobs[i])

\* is_machine_idle is entered: the scan for the quiet timer, and the two
\* comprehensions of remove_timed_out_jobs
is_machine_idle_scan(p) ==
    /\ ~halted
    /\ pc[p] = "read"
    /\ loc[p].job_files = {}
    /\ loc' = [loc EXCEPT
                 ![p].were_in_quiet_period = ScanForQuietTimer(loc[p].jobs),
                 ![p].running_jobs = SelectSeq(loc[p].jobs, StillRunning),
                 ![p].jobs_to_terminate = SelectSeq(loc[p].jobs, TimedOut)]
    /\ pc' = [pc EXCEPT ![p] = "reap"]
    /\ UNCHANGED <<now, dir, files, opts, boot, halted, obs, prev, calm, last_real, bill, order>>

\* one turn of the loop over jobs_to_terminate: os.remove(job.file_path)
remove_timed_out_jobs_loop(p) ==
    /\ ~halted
    /\ pc[p] = "reap"
    /\ loc[p].jobs_to_terminate # <<>>
    /\ LET job == Head(loc[p].jobs_to_terminate)
       IN  IF ~files[job.file_path].exists
           THEN \* os.remove raises OSError
                /\ Raise(p, "OSError", "os.remove")
                /\ UNCHANGED files
           ELSE /\ files' = [files EXCEPT ![job.file_path] = NoFile]
                /\ loc' = [loc EXCEPT ![p].jobs_to_terminate = Tail(@),
                                      ![p].removed = @ \cup {job.file_path}]
                /\ UNCHANGED <<pc, obs>>
    /\ UNCHANGED <<now, dir, opts, boot, halted, prev, calm, bill, order>>
    /\ TrackReal

\* variant of IdleVerdict: the quiet period looked at before the running jobs
IdleVerdictQuietFirst(running_jobs, were_in_quiet_period) ==
    IF were_in_quiet_period THEN TRUE
    ELSE FALSE

\* variant of IdleVerdict: idle as soon as nothing runs, the quiet timer not
\* asked for
IdleVerdictNoDebounce(running_jobs, were_in_quiet_period) ==
    IF running_jobs # <<>> THEN FALSE
    ELSE TRUE

\* what is_machine_idle returns once the reaper is back
IdleVerdict(running_jobs, were_in_quiet_period) ==
    IF running_jobs # <<>> THEN FALSE
    ELSE IF were_in_quiet_period THEN TRUE
    ELSE FALSE

\* variant of StartsQuietPeriod: the timer written whenever the verdict is false
StartsQuietPeriodRefreshing(running_jobs, were_in_quiet_period) ==
    running_jobs # <<>> \/ ~were_in_quiet_period

\* whether is_machine_idle gets as far as writing the quiet timer's marker
StartsQuietPeriod(running_jobs, were_in_quiet_period) ==
    running_jobs = <<>> /\ ~were_in_quiet_period

\* variant of MainShutsDown: the billing answer not looked at
MainShutsDownWhenIdle(is_idle, saves) == is_idle

\* whether main runs trigger_shutdown
MainShutsDown(is_idle, saves) == is_idle /\ saves

\* the rest of is_machine_idle and of main
is_machine_idle_return(p) ==
    /\ ~halted
    /\ pc[p] = "reap"
    /\ loc[p].jobs_to_terminate = <<>>
    /\ LET is_idle == IdleVerdict(loc[p].running_jobs, loc[p].were_in_quiet_period)
           writes == StartsQuietPeriod(loc[p].running_jobs, loc[p].were_in_quiet_period)
           saves == shutdown_saves_money(get_uptime_seconds,
                                         opts.PAID_ON_BOOT_MINUTES,
                                         opts.MINIMUM_PAYMENT_CHUNK_MINUTES,
                                         opts.SHUTDOWN_SAFETY_MARGIN_MINUTES)
           off == MainShutsDown(is_idle, saves)
       IN  /\ files' = IF writes
                       THEN [files EXCEPT ![QuietFile] = File(now, opts.IDLE_QUIET_MINUTES)]
                       ELSE files
           /\ obs' = [obs EXCEPT ![p].outcome = "returned",
                                 ![p].idle_returned = TRUE,
                                 ![p].is_idle = is_idle,
                                 ![p].wrote = writes,
                                 ![p].money_asked = is_idle,
                                 ![p].saves = is_idle /\ saves,
                                 ![p].shutdown = off]
           /\ halted' = off
    /\ pc' = [pc EXCEPT ![p] = "idle"]
    /\ UNCHANGED <<now, dir, opts, boot, loc, prev, calm, last_real, bill, order>>

----------------------------------------------------------------------------
(* The script run by cron, one invocation at a time *)

Next ==
    \/ Tick
    \/ JobStart
    \/ JobEnd
    \/ StrayFile
    \/ build_jobs_from_dir_list(1)
    \/ build_jobs_from_dir_loop(1)
    \/ is_machine_idle_scan(1)
    \/ remove_timed_out_jobs_loop(1)
    \/ is_machine_idle_return(1)

Spec == Init /\ [][Next]_vars

----------------------------------------------------------------------------
(* shutdown_saves_money called on its own, over a table of inputs *)

GridUptimes == {0, 1, 59, 60, 61, 119, 120, 121, 299, 300, 301, 599, 600}

BillInputs ==
    {[NoBill EXCEPT !.uptime_seconds = m * 60,
                    !.paid_on_boot_minutes = PAID_ON_BOOT_MINUTES,
                    !.payment_chunk_minutes = MINIMUM_PAYMENT_CHUNK_MINUTES,
                    !.shutdown_safety_margin = SHUTDOWN_SAFETY_MARGIN_MINUTES]
        : m \in 0..MaxTableMinute}
    \cup
    {[NoBill EXCEPT !.uptime_seconds = m * 60,
                    !.paid_on_boot_minutes = 10,
                    !.payment_chunk_minutes = 1,
                    !.shutdown_safety_margin = 2]
        : m \in 0..MaxTableMinute}
    \cup
    {[NoBill EXCEPT !.uptime_seconds = u,
                    !.paid_on_boot_minutes = paid,
                    !.payment_chunk_minutes = chunk,
                    !.shutdown_safety_margin = margin]
        : u \in GridUptimes, paid \in {0, 1, 10}, chunk \in 0..3, margin \in 0..2}

InitBilling ==
    /\ now = 0
    /\ dir = "ok"
    /\ files = [fn \in FileNames |-> NoFile]
    /\ opts \in Options
    /\ opts.IDLE_QUIET_MINUTES = Num(0)
    /\ boot = BootUptime
    /\ halted = FALSE
    /\ pc = [p \in Procs |-> "idle"]
    /\ loc = [p \in Procs |-> NoLoc]
    /\ obs = [p \in Procs |-> NoObs]
    /\ prev = [p \in Procs |-> NoPrev]
    /\ calm = FALSE
    /\ last_real = -1
    /\ bill \in BillInputs
    /\ order = NoOrder

CallShutdownSavesMoney ==
    /\ ~bill.called
    /\ bill' = [bill EXCEPT !.called = TRUE,
                            !.result = shutdown_saves_money(bill.uptime_seconds,
                                                            bill.paid_on_boot_minutes,
                                                            bill.payment_chunk_minutes,
                                                            bill.shutdown_safety_margin)]
    /\ UNCHANGED <<now, dir, files, opts, boot, halted, pc, loc, obs, prev, calm, last_real, order>>

NextBilling == CallShutdownSavesMoney

SpecBilling == InitBilling /\ [][NextBilling]_vars

----------------------------------------------------------------------------
(* The script run by cron once every minute on a host no job ever uses, with
   the options of DEFAULTS.  The run has no end, so the clock is kept relative
   to the present: a minute going by leaves now where it is, makes every file a
   minute older and the uptime a minute longer.  Once the hour paid on boot and
   one more chunk are over, the uptime is taken one chunk back:
   shutdown_saves_money answers alike one chunk later from then on
   (FoldKeepsBilling). *)

DefaultOptions ==
    [PAID_ON_BOOT_MINUTES |-> PAID_ON_BOOT_MINUTES,
     MINIMUM_PAYMENT_CHUNK_MINUTES |-> MINIMUM_PAYMENT_CHUNK_MINUTES,
     SHUTDOWN_SAFETY_MARGIN_MINUTES |-> SHUTDOWN_SAFETY_MARGIN_MINUTES,
     IDLE_QUIET_MINUTES |-> Num(IDLE_QUIET_MINUTES * 10)]

ChunkTicks == MINIMUM_PAYMENT_CHUNK_MINUTES * Step
FoldAt == PAID_ON_BOOT_MINUTES * Step + ChunkTicks

Fold(uptime) == IF uptime >= FoldAt THEN uptime - ChunkTicks ELSE uptime

\* the billing answer is the same before and after the fold
FoldKeepsBilling ==
    \A u \in FoldAt..(FoldAt + ChunkTicks) :
       shutdown_saves_money(Trunc(u, Hz), PAID_ON_BOOT_MINUTES,
                            MINIMUM_PAYMENT_CHUNK_MINUTES, SHUTDOWN_SAFETY_MARGIN_MINUTES)
       = shutdown_saves_money(Trunc(Fold(u), Hz), PAID_ON_BOOT_MINUTES,
                              MINIMUM_PAYMENT_CHUNK_MINUTES, SHUTDOWN_SAFETY_MARGIN_MINUTES)

InitCron ==
    /\ now = 0
    /\ dir = "ok"
    /\ files = [fn \in FileNames |-> NoFile]
    /\ opts = DefaultOptions
    /\ boot \in {m * Step : m \in 0..MaxStartMinute}
    /\ halted = FALSE
    /\ pc = [p \in Procs |-> "idle"]
    /\ loc = [p \in Procs |-> NoLoc]
    /\ obs = [p \in Procs |-> NoObs]
    /\ prev = [p \in Procs |-> NoPrev]
    /\ calm = FALSE
    /\ last_real = -1
    /\ bill = NoBill
    /\ order = NoOrder

\* cron starts the script: once in each minute
CronStart ==
    /\ ~calm
    /\ build_jobs_from_dir_list(1)

\* the minute's invocation is over and the next minute begins
CronTick ==
    /\ ~halted
    /\ calm
    /\ pc[1] = "idle"
    /\ files' = [fn \in FileNames |->
                   IF files[fn].exists
                   THEN [files[fn] EXCEPT !.mtime = @ - Step]
                   ELSE files[fn]]
    /\ boot' = Fold(boot + Step)
    /\ calm' = FALSE
    /\ UNCHANGED <<now, dir, opts, halted, pc, loc, obs, prev, last_real, bill, order>>

NextCron ==
    \/ CronStart
    \/ build_jobs_from_dir_loop(1)
    \/ is_machine_idle_scan(1)
    \/ remove_timed_out_jobs_loop(1)
    \/ is_machine_idle_return(1)
    \/ CronTick

\* cron never stops firing and an invocation that began runs to its end
SpecCron == InitCron /\ [][NextCron]_vars /\ WF_vars(NextCron)

----------------------------------------------------------------------------
(* is_machine_idle called on a job list and on a permutation of it, each call
   on a directory that holds the markers of the list *)

\* is_machine_idle as a function of its job list: the verdict, the files
\* remove_timed_out_jobs removes, and whether the quiet timer is written
is_machine_idle(jobs) ==
    LET were_in_quiet_period == ScanForQuietTimer(jobs)
        running_jobs == SelectSeq(jobs, StillRunning)
        jobs_to_terminate == SelectSeq(jobs, TimedOut)
    IN  [is_idle |-> IdleVerdict(running_jobs, were_in_quiet_period),
         removed |-> {jobs_to_terminate[i].file_path : i \in 1..Len(jobs_to_terminate)},
         wrote |-> StartsQuietPeriod(running_jobs, were_in_quiet_period)]

OrderNames == {IDLE_QUIET_JOB_NAME, "job1", "job2"}
OrderAges == {-60, 0, 59, 60}
OrderTimeouts == {0, 1}

\* the jobs _build_job_from_fp makes of the markers of these names
OrderJobs ==
    {[name |-> n, seconds_running |-> a, timeout_threshold_minutes |-> t,
      file_path |-> file_name_from_job_name(n)]
        : n \in OrderNames, a \in OrderAges, t \in OrderTimeouts}

\* the job lists of a listing: no file twice
OrderLists ==
    UNION {{js \in [1..k -> OrderJobs] :
               \A i, j \in 1..k : i # j => js[i].name # js[j].name}
              : k \in 0..Cardinality(OrderNames)}

PermutationsOf(js) ==
    {[i \in 1..Len(js) |-> js[f[i]]] : f \in Permutations(1..Len(js))}

InitOrder ==
    /\ now = 0
    /\ dir = "ok"
    /\ files = [fn \in FileNames |-> NoFile]
    /\ opts = DefaultOptions
    /\ boot = BootUptime
    /\ halted = FALSE
    /\ pc = [p \in Procs |-> "idle"]
    /\ loc = [p \in Procs |-> NoLoc]
    /\ obs = [p \in Procs |-> NoObs]
    /\ prev = [p \in Procs |-> NoPrev]
    /\ calm = FALSE
    /\ last_real = -1
    /\ bill = NoBill
    /\ \E js \in OrderLists : \E ps \in PermutationsOf(js) :
          order = [NoOrder EXCEPT !.jobs = js, !.permuted = ps]

CallIsMachineIdleTwice ==
    /\ ~order.called
    /\ order' = [order EXCEPT !.called = TRUE,
                              !.first = is_machine_idle(order.jobs),
                              !.second = is_machine_idle(order.permuted)]
    /\ UNCHANGED <<now, dir, files, opts, boot, halted, pc, loc, obs, prev, calm, last_real, bill>>

NextOrder == CallIsMachineIdleTwice

SpecOrder == InitOrder /\ [][NextOrder]_vars

----------------------------------------------------------------------------
(* The claims *)

Returned(p) == obs[p].outcome = "returned"

\* a job the claims call still running, and one they call expired
Young(job) == job.seconds_running < job.timeout_threshold_minutes * 60
Old(job) == job.seconds_running >= job.timeout_threshold_minutes * 60

SomeYoung(js) == \E i \in 1..Len(js) : Young(js[i])

\* C1: trigger_shutdown is run only by an invocation in which is_machine_idle
\* returned true and shutdown_saves_money, asked next, returned true; the host
\* is never shut down on another path.
C1_ShutdownOnlyWhenIdleAndSaving ==
    /\ \A p \in Procs :
          obs[p].shutdown =>
             /\ Returned(p)
             /\ obs[p].idle_returned /\ obs[p].is_idle
             /\ obs[p].money_asked /\ obs[p].saves
    /\ halted => \E p \in Procs : obs[p].shutdown

C1_Witness == halted /\ obs[1].shutdown /\ obs[1].is_idle /\ obs[1].saves

\* C2: when the job list handed to is_machine_idle holds a job (a real one or
\* the quiet timer) with seconds_running < timeout_threshold_minutes*60, the
\* call returns false and the invocation triggers no shutdown.
C2_RunningJobMeansNotIdle ==
    \A p \in Procs :
       (Returned(p) /\ SomeYoung(loc[p].jobs)) =>
          /\ ~obs[p].is_idle
          /\ ~obs[p].shutdown
          /\ ~halted

\* the quiet timer has run out, and a real job is still running
C2_Witness ==
    /\ Returned(1) /\ ~obs[1].is_idle
    /\ \E i, j \in 1..Len(loc[1].jobs) :
          /\ loc[1].jobs[i].name = IDLE_QUIET_JOB_NAME /\ Old(loc[1].jobs[i])
          /\ loc[1].jobs[j].name # IDLE_QUIET_JOB_NAME /\ Young(loc[1].jobs[j])

\* idle_quiet_minutes * 60 seconds, as the option states it, in tenths of a
\* second (the option is kept in tenths of a minute)
QuietTenthSeconds == opts.IDLE_QUIET_MINUTES.tenths * 60

\* the job list of p's invocation is the quiet timer alone
OnlyQuietTimer(p) ==
    /\ Len(loc[p].jobs) = 1
    /\ loc[p].jobs[1].name = IDLE_QUIET_JOB_NAME

\* C3: a cycle that lists a directory without markers returns false and
\* leaves the quiet timer's marker, its body the idle_quiet_minutes option;
\* with no job marker in its scan, a cycle that finds the quiet timer aged
\* idle_quiet_minutes*60 seconds or more returns true.
C3_QuietPeriodRoundTrip ==
    /\ (Returned(1) /\ obs[1].empty) =>
          /\ ~obs[1].is_idle
          /\ obs[1].wrote
          /\ files[QuietFile].exists
          /\ files[QuietFile].body = opts.IDLE_QUIET_MINUTES
    /\ (/\ Returned(1)
        /\ OnlyQuietTimer(1)
        /\ loc[1].jobs[1].seconds_running * 10 >= QuietTenthSeconds) =>
          obs[1].is_idle

\* the timer written for a one-minute quiet period is found a minute later
C3_Witness ==
    /\ Returned(1) /\ obs[1].is_idle
    /\ OnlyQuietTimer(1)
    /\ opts.IDLE_QUIET_MINUTES = Num(10)
    /\ loc[1].jobs[1].seconds_running = 60
    /\ loc[1].removed = {QuietFile}

\* C4: is_machine_idle returns true only when idle_quiet_minutes have gone by
\* since a real job's marker was last in the directory (taken here at the
\* moment the invocation began, which asks less than the claim does).
C4_QuietWindowAfterLastJob ==
    \A p \in Procs :
       (Returned(p) /\ obs[p].is_idle) =>
          \/ loc[p].start_real = -1
          \/ (now - loc[p].start_real) * 10 >= QuietTenthSeconds * Hz

\* C5: remove_timed_out_jobs returns exactly the jobs with seconds_running <
\* timeout_threshold_minutes*60 and removes exactly the marker files of the
\* jobs with seconds_running >= timeout_threshold_minutes*60; each job is in
\* one group and one only, and while the loop runs it removes no other file.
ReaperBack(p) == (pc[p] = "reap" /\ loc[p].jobs_to_terminate = <<>>) \/ Returned(p)

C5_ReaperPartitionsExactly ==
    \A p \in Procs :
       LET js == loc[p].jobs
           old == {js[i].file_path : i \in {k \in 1..Len(js) : Old(js[k])}}
       IN  /\ pc[p] = "reap" => loc[p].removed \subseteq old
           /\ ReaperBack(p) =>
                 /\ loc[p].running_jobs = SelectSeq(js, Young)
                 /\ loc[p].removed = old
                 /\ \A i \in 1..Len(js) :
                       (\E k \in 1..Len(loc[p].running_jobs) : loc[p].running_jobs[k] = js[i])
                          # (js[i].file_path \in loc[p].removed)

\* one job of each group, one of them exactly as old as its timeout
C5_Witness ==
    /\ pc[1] = "reap" /\ loc[1].jobs_to_terminate = <<>>
    /\ Len(loc[1].jobs) = 2
    /\ Len(loc[1].running_jobs) = 1
    /\ Cardinality(loc[1].removed) = 1
    /\ \E i \in 1..2 : /\ loc[1].jobs[i].seconds_running = 60
                       /\ loc[1].jobs[i].timeout_threshold_minutes = 1

\* the call made alone was made with these billing parameters
BillWith(paid, chunk, margin) ==
    /\ bill.called
    /\ bill.paid_on_boot_minutes = paid
    /\ bill.payment_chunk_minutes = chunk
    /\ bill.shutdown_safety_margin = margin

WholeMinute(lo, hi) == \E m \in lo..hi : bill.uptime_seconds = m * 60

\* C6: with 60 minutes paid on boot, chunks of 60 minutes and a margin of 2,
\* over the whole minutes 0..120 of uptime shutdown_saves_money is true at
\* minutes 56, 57, 116 and 117 and nowhere else; with 10 minutes paid on boot,
\* chunks of 1 minute and a margin of 2 it is false at minute 5 and true at
\* each minute from 6 to 11.
C6_BillingBoundaryTable ==
    /\ (BillWith(60, 60, 2) /\ WholeMinute(0, 120)) =>
          (bill.result <=> bill.uptime_seconds \div 60 \in {56, 57, 116, 117})
    /\ (BillWith(10, 1, 2) /\ WholeMinute(5, 5)) => ~bill.result
    /\ (BillWith(10, 1, 2) /\ WholeMinute(6, 11)) => bill.result

C6_Witness ==
    /\ BillWith(60, 60, 2)
    /\ bill.uptime_seconds = 56 * 60
    /\ bill.result

\* C7: when payment_chunk_minutes <= 2 and the time paid on boot does not
\* reach past the uptime and twice the margin, shutdown_saves_money is true.
C7_FineGrainedChunkShortcut ==
    (/\ bill.called
     /\ bill.payment_chunk_minutes <= 2
     /\ bill.paid_on_boot_minutes * 60
           - (bill.uptime_seconds + 2 * bill.shutdown_safety_margin * 60) <= 0)
       => bill.result

\* chunks of exactly 2 minutes, well before the next chunk begins
C7_Witness ==
    /\ bill.called /\ bill.result
    /\ bill.payment_chunk_minutes = 2
    /\ bill.paid_on_boot_minutes = 1
    /\ bill.uptime_seconds = 121
    /\ bill.shutdown_safety_margin = 0

\* C8: a marker whose body is empty or does not begin with a number is left
\* out of the job list and the scan goes on: no invocation ends with the
\* exception its parsing raises.
C8_MalformedMarkerSkipped ==
    \A p \in Procs :
       ~(obs[p].outcome = "raised" /\ obs[p].exc \in {"ValueError", "IndexError"})

\* C9: a marker deleted by its job between the listing and its reading is
\* skipped: no invocation ends with the exception os.path.getmtime raises.
C9_VanishedMarkerSkipped ==
    \A p \in Procs :
       ~(obs[p].outcome = "raised" /\ obs[p].at = "os.path.getmtime")

\* two cycles of process 1 one after the other, the first over a directory
\* without markers, with no tick and no file written or deleted by a job
\* since the first began
TwiceInSuccession == Returned(1) /\ prev[1].after_empty /\ calm

OneQuietTimerAndNotIdle ==
    /\ ~prev[1].is_idle
    /\ ~obs[1].is_idle
    /\ files[QuietFile].exists
    /\ \A fn \in RealFiles : ~files[fn].exists

\* C10, as claimed: for every idle_quiet_minutes >= 0 the two cycles return
\* false and leave one quiet timer marker.
C10_TwiceNotIdleAnyQuiet == TwiceInSuccession => OneQuietTimerAndNotIdle

\* C10, amended: the same for every idle_quiet_minutes of a whole minute or more.
C10_TwiceNotIdleFromOneMinute ==
    (TwiceInSuccession /\ Trunc(opts.IDLE_QUIET_MINUTES.tenths, 10) >= 1)
       => OneQuietTimerAndNotIdle

C10_Witness ==
    /\ TwiceInSuccession
    /\ opts.IDLE_QUIET_MINUTES = Num(10)
    /\ OneQuietTimerAndNotIdle
    /\ OnlyQuietTimer(1)
    /\ ~obs[1].wrote

ZeroQuiet == opts.IDLE_QUIET_MINUTES = Num(0)

HasQuietJob(js) == \E i \in 1..Len(js) : IsQuietJob(js[i])

\* C11: with idle_quiet_minutes = 0, the cycle that lists a directory without
\* markers writes the quiet timer with a 0-minute timeout and returns false;
\* the next cycle, its scan the quiet timer alone, removes that marker and
\* returns true; and no cycle returns true unless the quiet timer was in its
\* scan.
C11_ZeroQuietOneCycleDebounce ==
    \A p \in Procs :
       Returned(p) =>
          /\ (ZeroQuiet /\ obs[p].listed /\ obs[p].empty) =>
                /\ ~obs[p].is_idle
                /\ obs[p].wrote
                /\ calm => files[QuietFile] = File(now, Num(0))
          /\ (ZeroQuiet /\ OnlyQuietTimer(p)) =>
                /\ loc[p].jobs[1].timeout_threshold_minutes = 0
                /\ obs[p].is_idle
                /\ QuietFile \in loc[p].removed
          /\ (ZeroQuiet /\ prev[p].after_empty /\ calm) =>
                /\ OnlyQuietTimer(p)
                /\ obs[p].is_idle
                /\ ~files[QuietFile].exists
          /\ obs[p].is_idle => HasQuietJob(loc[p].jobs)

\* the second of two cycles in succession, after the first wrote the 0-minute
\* timer: it finds the timer 0 seconds old, removes it and returns true
C11_Witness ==
    /\ Returned(1) /\ ZeroQuiet
    /\ prev[1].after_empty /\ calm
    /\ OnlyQuietTimer(1)
    /\ loc[1].jobs[1].seconds_running = 0
    /\ obs[1].is_idle
    /\ loc[1].removed = {QuietFile}
    /\ ~files[QuietFile].exists

\* C12: an expired marker that is gone by the time the reaper comes to it (its
\* job deleted it after the scan) does not stop the invocation: no invocation
\* ends with the exception os.remove raises.
C12_ReapToleratesMissingMarker ==
    \A p \in Procs :
       ~(obs[p].outcome = "raised" /\ obs[p].at = "os.remove")

\* C13: on a host where no job ever writes a marker, with the options of
\* DEFAULTS and the script started once every minute, from whatever uptime
\* the first invocation finds, some invocation runs trigger_shutdown.
C13_IdleHostEventuallyShutsDown == <>halted

\* C14: is_machine_idle does not return true in two cycles running: the cycle
\* after a true verdict finds no quiet timer in its scan (the true verdict
\* removed it) and returns false, either with a job still running or after
\* writing a fresh timer.
C14_IdleVerdictIsConsumed ==
    (Returned(1) /\ prev[1].is_idle) =>
       /\ ~obs[1].is_idle
       /\ ~HasQuietJob(loc[1].jobs)
       /\ SomeYoung(loc[1].jobs) \/ obs[1].wrote

\* after a true verdict that did not shut the host down, the next cycle finds
\* the directory without markers and starts a new quiet period
C14_Witness ==
    /\ Returned(1) /\ prev[1].is_idle
    /\ ~halted
    /\ obs[1].listed /\ obs[1].empty
    /\ ~obs[1].is_idle
    /\ obs[1].wrote
    /\ files[QuietFile].exists

\* the inputs of the call made alone, in seconds
MarginSeconds == bill.shutdown_safety_margin * 60
ChunkSeconds == bill.payment_chunk_minutes * 60

\* the multiples of the chunk up to the first one past uptime and twice the margin
Boundaries ==
    {k * ChunkSeconds :
        k \in 0..((bill.uptime_seconds + 2 * MarginSeconds) \div ChunkSeconds + 1)}

AlreadyPaidFails ==
    bill.uptime_seconds + 2 * MarginSeconds >= bill.paid_on_boot_minutes * 60

InShutdownWindow ==
    \E B \in Boundaries :
       B - 2 * MarginSeconds <= bill.uptime_seconds /\ bill.uptime_seconds < B - MarginSeconds

InLastMargin ==
    \E B \in Boundaries :
       B - MarginSeconds <= bill.uptime_seconds /\ bill.uptime_seconds < B

WindowExactly ==
    /\ bill.result <=> (AlreadyPaidFails /\ InShutdownWindow)
    /\ bill.shutdown_safety_margin = 0 => ~bill.result

\* C15, as claimed: for payment_chunk_minutes > 2, shutdown_saves_money is
\* true exactly when the already-paid check fails and the uptime is in
\* [B - 2*margin, B - margin) for a multiple B of the chunk; never with a
\* margin of 0, and never in the last margin seconds before a boundary.
C15_ShutdownWindowAnyMargin ==
    (bill.called /\ bill.payment_chunk_minutes > 2) =>
       /\ WindowExactly
       /\ InLastMargin => ~bill.result

\* C15, amended: the same, the last clause for margins of at most half a chunk
\* (with a longer margin the window before the boundary after the next begins
\* before the next boundary is reached).
C15_ShutdownWindowShortMargin ==
    (bill.called /\ bill.payment_chunk_minutes > 2) =>
       /\ WindowExactly
       /\ (2 * bill.shutdown_safety_margin <= bill.payment_chunk_minutes /\ InLastMargin)
             => ~bill.result

\* the first second of the window before the second boundary
C15_Witness ==
    /\ BillWith(60, 60, 2)
    /\ bill.uptime_seconds = 116 * 60
    /\ AlreadyPaidFails /\ InShutdownWindow /\ ~InLastMargin
    /\ bill.result

\* a step of process 1 inside is_machine_idle: its entry, a turn of the
\* reaper's loop or its return (the steps of the jobs leave pc and loc alone)
IsMachineIdleStep ==
    /\ \/ pc[1] = "reap"
       \/ pc[1] = "read" /\ pc'[1] = "reap"
    /\ pc'[1] # pc[1] \/ loc'[1] # loc[1]

IsMachineIdleReturns == pc[1] = "reap" /\ pc'[1] = "idle" /\ obs'[1].outcome = "returned"

\* no job of the scanned list is still running and none is the quiet timer
NothingRunsAndNoTimer(js) == ~SomeYoung(js) /\ ~HasQuietJob(js)

\* C16: is_machine_idle writes the quiet timer's marker exactly when it returns
\* with no job of its list still running and no quiet timer in its list; in
\* every other case, and in every step before its return, it creates and
\* rewrites no file (it only removes), so a timer found unexpired stays as it is.
C16_WritesOnlyToStartQuietPeriod ==
    [][IsMachineIdleStep =>
          IF IsMachineIdleReturns /\ NothingRunsAndNoTimer(loc[1].jobs)
          THEN /\ obs'[1].wrote
               /\ files' = [files EXCEPT ![QuietFile] = File(now, opts.IDLE_QUIET_MINUTES)]
          ELSE /\ ~obs'[1].wrote
               /\ \A fn \in FileNames : files'[fn].exists => files'[fn] = files[fn]
               /\ IsMachineIdleReturns => files' = files]_vars

\* a cycle that removed an expired job's marker and found the quiet timer
\* unexpired: false, and the timer is the one written before
C16_Witness ==
    /\ Returned(1) /\ ~obs[1].is_idle /\ ~obs[1].wrote
    /\ Len(loc[1].jobs) = 2
    /\ \E i, j \in 1..2 :
          /\ IsQuietJob(loc[1].jobs[i]) /\ Young(loc[1].jobs[i])
          /\ ~IsQuietJob(loc[1].jobs[j]) /\ Old(loc[1].jobs[j])
    /\ loc[1].removed = RealFiles
    /\ files[QuietFile].exists

C18_SecondsRunningNeverNegative ==
    \A p \in Procs :
       \A i \in 1..Len(loc[p].jobs) :
          LET job == loc[p].jobs[i]
          IN  /\ job.seconds_running >= 0
              /\ job.timeout_threshold_minutes = 0 => Old(job)

\* C19: when the tracking directory is missing and cannot be created, or
\* cannot be listed, build_jobs_from_dir raises nothing and the invocation
\* goes on to is_machine_idle with no jobs.
C19_DirectoryFailuresDoNotAbort ==
    \A p \in Procs :
       /\ ~(obs[p].outcome = "raised" /\ obs[p].at = "os.makedirs")
       /\ (Returned(p) /\ ~obs[p].listed) => loc[p].jobs = <<>>

====
